---- MODULE Spec2Model ----
EXTENDS Integers, Sequences, FiniteSets, TLC

\* ------------------------------------------------------------------------
\* Strings.  A Go string is modelled as a sequence of one-character strings,
\* so that suffix tests, trimming, splitting and byte-wise comparison are
\* computed the way the code computes them.
\* ------------------------------------------------------------------------

\* The characters used by the model, in ascending byte order.
Ascii == <<" ", ",", ".", "0", "1", "2", "3", ":", "a", "b", "c", "l", "q", "s", "t", "x">>

Byte(c) == CHOOSE i \in 1..Len(Ascii) : Ascii[i] = c

\* Go's < on strings: byte-wise lexicographic order.
RECURSIVE StrLess(_, _)
StrLess(a, b) ==
    IF a = <<>> THEN b # <<>>
    ELSE IF b = <<>> THEN FALSE
    ELSE IF Head(a) = Head(b) THEN StrLess(Tail(a), Tail(b))
    ELSE Byte(Head(a)) < Byte(Head(b))

HasSuffix(s, suffix) ==
    /\ Len(s) >= Len(suffix)
    /\ SubSeq(s, Len(s) - Len(suffix) + 1, Len(s)) = suffix

TrimSuffix(s, suffix) ==
    IF HasSuffix(s, suffix) THEN SubSeq(s, 1, Len(s) - Len(suffix)) ELSE s

SqlSuffix == <<".", "s", "q", "l">>

\* positions of character c in s
Indexes(s, c) == {i \in 1..Len(s) : s[i] = c}

Min(S) == CHOOSE x \in S : \A y \in S : x <= y
Max(S) == CHOOSE x \in S : \A y \in S : x >= y

\* strings.Split(s, sep)[0]: the text before the first separator
FirstField(s, sep) ==
    IF Indexes(s, sep) = {} THEN s ELSE SubSeq(s, 1, Min(Indexes(s, sep)) - 1)

\* the characters with the Unicode White_Space property (unicode.IsSpace),
\* each as its UTF-8 bytes; a byte outside ASCII is written by its
\* hexadecimal value
WhiteSpace ==
    {<<"\t">>, <<"\n">>, <<"">>, <<"\f">>, <<"\r">>, <<" ">>,
     <<"c2", "85">>, <<"c2", "a0">>, <<"e1", "9a", "80">>,
     <<"e2", "81", "9f">>, <<"e3", "80", "80">>}
    \cup {<<"e2", "80", b>> :
             b \in {"80", "81", "82", "83", "84", "85", "86", "87", "88", "89",
                    "8a", "a8", "a9", "af"}}

\* whether a white space character of s begins at position i, or ends at
\* position j
SpaceBeginsAt(s, i) ==
    \E w \in WhiteSpace :
        i + Len(w) - 1 <= Len(s) /\ SubSeq(s, i, i + Len(w) - 1) = w

SpaceEndsAt(s, j) ==
    \E w \in WhiteSpace :
        j - Len(w) + 1 >= 1 /\ SubSeq(s, j - Len(w) + 1, j) = w

\* the position of the first character from i on that is not white space
RECURSIVE SkipSpaceRight(_, _)
SkipSpaceRight(s, i) ==
    IF i <= Len(s) /\ SpaceBeginsAt(s, i)
    THEN SkipSpaceRight(s, i + Len(CHOOSE w \in WhiteSpace :
             i + Len(w) - 1 <= Len(s) /\ SubSeq(s, i, i + Len(w) - 1) = w))
    ELSE i

\* the position of the last byte up to j that does not end a white space
RECURSIVE SkipSpaceLeft(_, _)
SkipSpaceLeft(s, j) ==
    IF j >= 1 /\ SpaceEndsAt(s, j)
    THEN SkipSpaceLeft(s, j - Len(CHOOSE w \in WhiteSpace :
             j - Len(w) + 1 >= 1 /\ SubSeq(s, j - Len(w) + 1, j) = w))
    ELSE j

\* strings.TrimSpace: leading and trailing white space removed
TrimSpace(s) ==
    LET first == SkipSpaceRight(s, 1)
    IN  IF first > Len(s) THEN <<>>
        ELSE SubSeq(s, first, SkipSpaceLeft(s, Len(s)))

\* ip[:strings.LastIndex(ip, ":")] when there is a colon, else ip
StripPort(addr) ==
    IF Indexes(addr, ":") = {} THEN addr
    ELSE SubSeq(addr, 1, Max(Indexes(addr, ":")) - 1)

\* ------------------------------------------------------------------------
\* Bounds
\* ------------------------------------------------------------------------

MaxFiles == 3       \* entries in the migrations directory
MaxRuns == 2        \* executions of runMigrations against the store
MaxLimit == 2       \* largest configured RATE_LIMIT_REQUESTS
WindowMinutes == 1  \* the configured RATE_LIMIT_WINDOW_MINUTES
MaxTime == 2        \* minutes the clock of the store advances
MaxPosts == 3       \* rows of posts after which no further request arrives
MaxInflight == 2    \* requests being handled at once

\* ------------------------------------------------------------------------
\* The migrations directory
\* ------------------------------------------------------------------------

File(name) == [name |-> name, isDir |-> FALSE]
Directory(name) == [name |-> name, isDir |-> TRUE]

\* Candidate directory entries: three scripts whose byte order ("1.sql" <
\* "10.sql" < "2.sql") differs from their numeric order, a file without the
\* .sql suffix, and a sub-directory whose name carries the suffix.
EntryUniverse ==
    { File(<<"1", ".", "s", "q", "l">>),
      File(<<"1", "0", ".", "s", "q", "l">>),
      File(<<"2", ".", "s", "q", "l">>),
      File(<<"2", ".", "t", "x", "t">>),
      Directory(<<"3", ".", "s", "q", "l">>) }

RECURSIVE SeqsUpTo(_, _)
\* the sequences of distinct elements of S of length at most n
SeqsUpTo(S, n) ==
    IF n = 0 THEN {<<>>}
    ELSE LET shorter == SeqsUpTo(S, n - 1)
         IN  shorter \cup
             { Append(s, e) : s \in {t \in shorter : Len(t) = n - 1},
                              e \in S }

Distinct(s) == \A i, j \in 1..Len(s) : i # j => s[i] # s[j]

\* The directory as the file system lists it: any order of any entries.
Listings == {s \in SeqsUpTo(EntryUniverse, MaxFiles) : Distinct(s)}

RECURSIVE InsertByName(_, _)
InsertByName(e, sorted) ==
    IF sorted = <<>> THEN <<e>>
    ELSE IF StrLess(e.name, Head(sorted).name) THEN <<e>> \o sorted
    ELSE <<Head(sorted)>> \o InsertByName(e, Tail(sorted))

RECURSIVE SortByName(_)
SortByName(s) ==
    IF s = <<>> THEN <<>> ELSE InsertByName(Head(s), SortByName(Tail(s)))

\* A reading of the directory that keeps the file system's own order.
ReadDir_Unsorted(listing) == listing

\* os.ReadDir returns the entries of the directory sorted by filename.
ReadDir(listing) == SortByName(listing)

\* the loop of runMigrations that keeps the names of the regular files
\* ending in .sql, in the order ReadDir returned them
RECURSIVE SqlFileNames(_)
SqlFileNames(entries) ==
    IF entries = <<>> THEN <<>>
    ELSE LET file == Head(entries)
             rest == SqlFileNames(Tail(entries))
         IN  IF ~file.isDir /\ HasSuffix(file.name, SqlSuffix)
             THEN <<file.name>> \o rest
             ELSE rest

\* version of a migration: the filename without the suffix
Version(filename) == TrimSuffix(filename, SqlSuffix)

\* ------------------------------------------------------------------------
\* State
\* ------------------------------------------------------------------------

VARIABLES
    listing,            \* the migrations directory, in file-system order
    storeUp,            \* whether the store answers statements
    tableExists,        \* whether schema_migrations has been created
    schema_migrations,  \* the versions recorded in schema_migrations
    execLog,            \* the migration scripts the store was asked to execute
    recordLog,          \* the versions the store accepted an INSERT of, in order
    rpc,                \* position of each execution of runMigrations
    sortedFiles,        \* sortedFiles of each execution
    idx,                \* loop position of each execution in sortedFiles
    mainPc,             \* position of main
    dbOpen,             \* whether the connection pool of db is open
    requestLimit,       \* RateLimiter.requestLimit
    windowMinutes,      \* RateLimiter.windowMinutes
    now,                \* the clock of the store, in minutes
    posts,              \* the rows of posts
    nextId,             \* the next value of the posts.id sequence
    conn                \* the request each connection is handling, and its answer

migVars ==
    <<listing, tableExists, schema_migrations, execLog, recordLog, rpc, sortedFiles, idx>>

srvVars == <<mainPc, dbOpen, requestLimit, windowMinutes, now, posts, nextId, conn>>

vars == <<listing, storeUp, tableExists, schema_migrations, execLog, recordLog, rpc,
          sortedFiles, idx, mainPc, dbOpen, requestLimit, windowMinutes, now, posts,
          nextId, conn>>

Runs == 1..MaxRuns

Conns == 1..MaxInflight

\* a connection with no request on it
NoRequest ==
    [stage |-> "idle", req |-> <<>>, ipHash |-> <<>>, queried |-> FALSE,
     identity |-> <<>>, nextCalled |-> FALSE, status |-> 0, created |-> 0,
     limit |-> 0, offset |-> 0, body |-> [isNil |-> TRUE, items |-> <<>>]]

Finished == {"returned", "fatal"}

\* ------------------------------------------------------------------------
\* The persistent store going away and coming back (connectivity loss)
\* ------------------------------------------------------------------------

StoreFails ==
    /\ storeUp
    /\ storeUp' = FALSE
    /\ UNCHANGED <<migVars, srvVars>>

StoreRecovers ==
    /\ ~storeUp
    /\ storeUp' = TRUE
    /\ UNCHANGED <<migVars, srvVars>>

\* ------------------------------------------------------------------------
\* runMigrations, one action per statement that touches the store or the
\* file system
\* ------------------------------------------------------------------------

\* log.Fatalf: the process exits, the execution takes no further step
Fatal(r) == rpc' = [rpc EXCEPT ![r] = "fatal"]

\* the head of the for loop over sortedFiles, entered at position i: the
\* function returns after the last file
LoopAt(r, files, i) ==
    /\ idx' = [idx EXCEPT ![r] = i]
    /\ rpc' = [rpc EXCEPT ![r] = IF i > Len(files) THEN "returned" ELSE "check"]

\* a process calls runMigrations
StartRun(r) ==
    /\ rpc[r] = "idle"
    /\ rpc' = [rpc EXCEPT ![r] = "create_table"]
    /\ UNCHANGED <<srvVars, recordLog, listing, storeUp, tableExists, schema_migrations, execLog,
                   sortedFiles, idx>>

\* runMigrations is called again only after the previous execution ended
StartRunInSuccession(r) ==
    /\ \A k \in Runs : k < r => rpc[k] \in Finished
    /\ StartRun(r)

\* CREATE TABLE IF NOT EXISTS schema_migrations
CreateTable(r) ==
    /\ rpc[r] = "create_table"
    /\ IF storeUp
       THEN /\ tableExists' = TRUE
            /\ rpc' = [rpc EXCEPT ![r] = "read_dir"]
       ELSE /\ Fatal(r)
            /\ UNCHANGED tableExists
    /\ UNCHANGED <<srvVars, recordLog, listing, storeUp, schema_migrations, execLog, sortedFiles, idx>>

\* os.ReadDir("migrations") and the filter loop; fsOk is whether the
\* directory could be read
ReadMigrationFiles(r) ==
    /\ rpc[r] = "read_dir"
    /\ \E fsOk \in BOOLEAN :
         IF fsOk
         THEN LET files == SqlFileNames(ReadDir(listing))
              IN  /\ sortedFiles' = [sortedFiles EXCEPT ![r] = files]
                  /\ LoopAt(r, files, 1)
         ELSE /\ Fatal(r)
              /\ UNCHANGED <<sortedFiles, idx>>
    /\ UNCHANGED <<srvVars, recordLog, listing, storeUp, tableExists, schema_migrations, execLog>>

\* SELECT EXISTS(...) that always answers "not applied"
CheckApplied_AlwaysPending(r) ==
    /\ rpc[r] = "check"
    /\ IF ~(storeUp /\ tableExists)
       THEN Fatal(r) /\ UNCHANGED idx
       ELSE rpc' = [rpc EXCEPT ![r] = "read_file"] /\ UNCHANGED idx
    /\ UNCHANGED <<srvVars, recordLog, listing, storeUp, tableExists, schema_migrations, execLog,
                   sortedFiles>>

\* SELECT EXISTS(SELECT 1 FROM schema_migrations WHERE version = $1): an
\* applied migration is skipped, a pending one goes on to be read
CheckApplied(r) ==
    /\ rpc[r] = "check"
    /\ IF ~(storeUp /\ tableExists)
       THEN Fatal(r) /\ UNCHANGED idx
       ELSE IF Version(sortedFiles[r][idx[r]]) \in schema_migrations
       THEN LoopAt(r, sortedFiles[r], idx[r] + 1)
       ELSE rpc' = [rpc EXCEPT ![r] = "read_file"] /\ UNCHANGED idx
    /\ UNCHANGED <<srvVars, recordLog, listing, storeUp, tableExists, schema_migrations, execLog,
                   sortedFiles>>

\* os.ReadFile of the pending script
ReadMigrationFile(r) ==
    /\ rpc[r] = "read_file"
    /\ \E fsOk \in BOOLEAN :
         IF fsOk THEN rpc' = [rpc EXCEPT ![r] = "exec"] ELSE Fatal(r)
    /\ UNCHANGED <<srvVars, recordLog, listing, storeUp, tableExists, schema_migrations, execLog,
                   sortedFiles, idx>>

ExecEntry(r, ok) == [run |-> r, file |-> sortedFiles[r][idx[r]], ok |-> ok]

\* Exec of the script whose failure is only logged
ExecMigration_ErrorIgnored(r) ==
    /\ rpc[r] = "exec"
    /\ \E ok \in (IF storeUp THEN BOOLEAN ELSE {FALSE}) :
         /\ execLog' = Append(execLog, ExecEntry(r, ok))
         /\ rpc' = [rpc EXCEPT ![r] = "record"]
    /\ UNCHANGED <<srvVars, recordLog, listing, storeUp, tableExists, schema_migrations, sortedFiles, idx>>

\* db.conn.Exec(string(sqlBytes)): the store executes the script, which
\* fails when the store is away and may fail on its own (invalid SQL, a
\* violated constraint)
ExecMigration(r) ==
    /\ rpc[r] = "exec"
    /\ \E ok \in (IF storeUp THEN BOOLEAN ELSE {FALSE}) :
         /\ execLog' = Append(execLog, ExecEntry(r, ok))
         /\ IF ok THEN rpc' = [rpc EXCEPT ![r] = "record"] ELSE Fatal(r)
    /\ UNCHANGED <<srvVars, recordLog, listing, storeUp, tableExists, schema_migrations, sortedFiles, idx>>

\* the record step that moves on without inserting the version
RecordMigration_NoInsert(r) ==
    /\ rpc[r] = "record"
    /\ LoopAt(r, sortedFiles[r], idx[r] + 1)
    /\ UNCHANGED <<srvVars, recordLog, listing, storeUp, tableExists, schema_migrations, execLog,
                   sortedFiles>>

\* the INSERT on a table that has no primary key
RecordMigration_NoPrimaryKey(r) ==
    /\ rpc[r] = "record"
    /\ LET version == Version(sortedFiles[r][idx[r]])
       IN  IF storeUp /\ tableExists
           THEN /\ schema_migrations' = schema_migrations \cup {version}
                /\ recordLog' = Append(recordLog, version)
                /\ LoopAt(r, sortedFiles[r], idx[r] + 1)
           ELSE /\ Fatal(r)
                /\ UNCHANGED <<schema_migrations, recordLog, idx>>
    /\ UNCHANGED <<srvVars, listing, storeUp, tableExists, execLog, sortedFiles>>

\* INSERT INTO schema_migrations (version): fails when the store is away or
\* the version is already there (version is the primary key)
RecordMigration(r) ==
    /\ rpc[r] = "record"
    /\ LET version == Version(sortedFiles[r][idx[r]])
       IN  IF storeUp /\ tableExists /\ version \notin schema_migrations
           THEN /\ schema_migrations' = schema_migrations \cup {version}
                /\ recordLog' = Append(recordLog, version)
                /\ LoopAt(r, sortedFiles[r], idx[r] + 1)
           ELSE /\ Fatal(r)
                /\ UNCHANGED <<schema_migrations, recordLog, idx>>
    /\ UNCHANGED <<srvVars, listing, storeUp, tableExists, execLog, sortedFiles>>

RunStep(r) ==
    \/ CreateTable(r)
    \/ ReadMigrationFiles(r)
    \/ CheckApplied(r)
    \/ ReadMigrationFile(r)
    \/ ExecMigration(r)
    \/ RecordMigration(r)

\* ------------------------------------------------------------------------
\* Executions of runMigrations in succession against one store
\* ------------------------------------------------------------------------

\* no service process has been started
ServerNotStarted ==
    /\ mainPc = "start"
    /\ dbOpen = FALSE
    /\ requestLimit = 0
    /\ windowMinutes = 0
    /\ now = 0
    /\ posts = {}
    /\ nextId = 1
    /\ conn = [c \in Conns |-> NoRequest]

InitMig ==
    /\ ServerNotStarted
    /\ listing \in Listings
    /\ storeUp = TRUE
    /\ tableExists = FALSE
    /\ schema_migrations = {}
    /\ execLog = <<>>
    /\ recordLog = <<>>
    /\ rpc = [r \in Runs |-> "idle"]
    /\ sortedFiles = [r \in Runs |-> <<>>]
    /\ idx = [r \in Runs |-> 0]

NextMig ==
    \/ StoreFails
    \/ StoreRecovers
    \/ \E r \in Runs : StartRunInSuccession(r)
    \/ \E r \in Runs : RunStep(r)

SpecMig == InitMig /\ [][NextMig]_vars

\* ------------------------------------------------------------------------
\* Requests
\* ------------------------------------------------------------------------

\* header values and peer address: each of the three sources names a
\* different address
XForwardedFors == {<<>>, <<" ", "b", "\t", ",", "c">>}
XRealIPs == {<<>>, <<"a">>}
RemoteAddrs == {<<"c", ":", "2">>}

Paths == {"/api/posts", "/api/events", "/health", "/"}

\* request bodies: whether the JSON decodes, and the CreatePostRequest it
\* decodes to
\* the values of the event, limit and offset parameters of the URL, "" for
\* a parameter that is absent
NoQuery == [event |-> <<>>, limit |-> <<>>, offset |-> <<>>]

NoBody ==
    [decodes |-> FALSE,
     fields |-> [event_name |-> <<>>, content |-> <<>>, age |-> 0,
                 gender |-> <<>>, location |-> <<>>]]

ValidBody ==
    [decodes |-> TRUE,
     fields |-> [event_name |-> <<"a">>, content |-> <<"b">>, age |-> 30,
                 gender |-> <<>>, location |-> <<"c">>]]

BlankEventBody ==
    [decodes |-> TRUE,
     fields |-> [event_name |-> <<"\t", " ">>, content |-> <<"b">>, age |-> 30,
                 gender |-> <<>>, location |-> <<"c">>]]

\* requests to create a post: a valid one with every combination of the
\* address headers, and the rejected bodies from each peer address
CreateRequests ==
    [method : {"POST"}, path : {"/api/posts"}, query : {NoQuery},
     xff : XForwardedFors, realIP : XRealIPs, remoteAddr : RemoteAddrs,
     body : {ValidBody}]
    \cup
    [method : {"POST"}, path : {"/api/posts"}, query : {NoQuery}, xff : {<<>>},
     realIP : {<<>>}, remoteAddr : RemoteAddrs, body : {NoBody, BlankEventBody}]

\* every other method and route, from a peer that also creates posts
OtherRequests ==
    {r \in [method : {"GET", "POST", "OPTIONS", "DELETE"}, path : Paths,
            query : {NoQuery}, xff : {<<>>}, realIP : {<<>>},
            remoteAddr : RemoteAddrs, body : {NoBody}] :
        ~(r.method = "POST" /\ r.path = "/api/posts")}

Requests == CreateRequests \cup OtherRequests

\* ------------------------------------------------------------------------
\* Identity of the caller
\* ------------------------------------------------------------------------

getIP(r) ==
    IF r.xff # <<>> THEN TrimSpace(FirstField(r.xff, ","))
    ELSE IF r.realIP # <<>> THEN r.realIP
    ELSE StripPort(r.remoteAddr)

Salt ==
    <<"l", "i", "v", "i", "n", "g", "-", "t", "i", "m", "e", "l", "i", "n", "e",
      "-", "s", "a", "l", "t">>

\* hex of the SHA-256 digest of ip + salt: a non-empty string that differs
\* from the address and is the same for two inputs only when they are equal
hashIP(ip) == <<"sha256(">> \o ip \o Salt \o <<")">>

computeIPHash(r) == hashIP(StripPort(r.remoteAddr))

\* the value stored under ipHashKey, or "" when the context holds none
IPHashFromContext(c) == conn[c].ipHash

\* the handler deriving the identity from the peer address alone
CreatorIPHash_PeerOnly(c) == computeIPHash(conn[c].req)

\* the identity CreatePost stores with the row
CreatorIPHash(c) ==
    IF IPHashFromContext(c) = <<>> THEN computeIPHash(conn[c].req)
    ELSE IPHashFromContext(c)

\* ------------------------------------------------------------------------
\* Characters, and the columns of posts
\* ------------------------------------------------------------------------

\* a Go string holds bytes: a character outside ASCII takes several of them,
\* written here by their hexadecimal value.  U+00E9 is the bytes c3 a9.
EAcute == <<"c3", "a9">>

\* the bytes 80 to bf
ContinuationBytes ==
    {"80", "81", "82", "83", "84", "85", "86", "87", "88", "89", "8a", "8b",
     "8c", "8d", "8e", "8f", "90", "91", "92", "93", "94", "95", "96", "97",
     "98", "99", "9a", "9b", "9c", "9d", "9e", "9f", "a0", "a1", "a2", "a3",
     "a4", "a5", "a6", "a7", "a8", "a9", "aa", "ab", "ac", "ad", "ae", "af",
     "b0", "b1", "b2", "b3", "b4", "b5", "b6", "b7", "b8", "b9", "ba", "bb",
     "bc", "bd", "be", "bf"}

\* the number of characters of a string (its bytes that start a character),
\* where len() in the code is the number of its bytes
RuneCount(s) == Cardinality({i \in 1..Len(s) : s[i] \notin ContinuationBytes})

\* the length of s without the spaces at its end
LenWithoutTrailingSpaces(s) ==
    IF \A i \in 1..Len(s) : s[i] = " " THEN 0
    ELSE CHOOSE i \in 1..Len(s) :
            s[i] # " " /\ \A j \in (i + 1)..Len(s) : s[j] = " "

\* a VARCHAR(n) column takes a string of more than n characters only when
\* the characters in excess are all spaces
VarcharFits(s, n) == RuneCount(SubSeq(s, 1, LenWithoutTrailingSpaces(s))) <= n

\* the value the VARCHAR(n) column then holds: the first n characters
Varchar(s, n) ==
    IF RuneCount(s) <= n THEN s ELSE SubSeq(s, 1, Len(s) - (RuneCount(s) - n))

\* the INSERT is refused by the types and the check constraint of posts
InsertRefused(fields) ==
    \/ ~VarcharFits(fields.event_name, 200)
    \/ ~VarcharFits(fields.location, 200)
    \/ ~VarcharFits(fields.gender, 20)
    \/ ~(fields.age >= 1 /\ fields.age <= 120)

\* the values the columns hold after the INSERT
StoredFields(fields) ==
    [fields EXCEPT !.event_name = Varchar(@, 200), !.location = Varchar(@, 200),
                   !.gender = Varchar(@, 20)]

\* ------------------------------------------------------------------------
\* The store's queries on posts
\* ------------------------------------------------------------------------

\* the count with the window bound included
GetPostCountByIPInWindow_Inclusive(ipHash, minutes) ==
    Cardinality({p \in posts : p.ip_hash = ipHash /\ p.created_at >= now - minutes})

\* the count of the posts of every caller in the window
GetPostCountByIPInWindow_AllCallers(ipHash, minutes) ==
    Cardinality({p \in posts : p.created_at > now - minutes})

\* SELECT COUNT(*) FROM posts WHERE ip_hash = $1
\*   AND created_at > NOW() - INTERVAL '1 minute' * $2
GetPostCountByIPInWindow(ipHash, minutes) ==
    Cardinality({p \in posts : p.ip_hash = ipHash /\ p.created_at > now - minutes})

\* the row INSERT INTO posts ... RETURNING creates
NewPost(fields, ipHash) ==
    LET stored == StoredFields(fields)
    IN  [id |-> nextId, event_name |-> stored.event_name, content |-> stored.content,
         age |-> stored.age, gender |-> stored.gender, location |-> stored.location,
         ip_hash |-> ipHash, created_at |-> now]

\* the sequences that hold each element of S once
Arrangements(S) ==
    {s \in [1..Cardinality(S) -> S] :
        \A i, j \in 1..Cardinality(S) : s[i] = s[j] => i = j}

\* ORDER BY created_at DESC: rows of one created_at come in any order
NewestFirst(rows) ==
    {s \in Arrangements(rows) :
        \A i, j \in 1..Len(s) : i < j => s[i].created_at >= s[j].created_at}

\* LIMIT limit OFFSET offset
Page(s, limit, offset) ==
    IF offset >= Len(s) THEN <<>>
    ELSE SubSeq(s, offset + 1, Min({offset + limit, Len(s)}))

\* rows.Scan into a Post: the columns selected, without ip_hash
ScanPost(p) ==
    [id |-> p.id, event_name |-> p.event_name, content |-> p.content,
     age |-> p.age, gender |-> p.gender, location |-> p.location,
     created_at |-> p.created_at]

\* var posts []Post with one append per row: nil when there was no row
Slice(items) == [isNil |-> items = <<>>, items |-> items]

\* DB.GetPosts: the results the store may give; rows of one created_at come
\* in any order
DB_GetPosts(eventFilter, limit, offset) ==
    LET rows == IF eventFilter # <<>>
                THEN {p \in posts : p.event_name = eventFilter}
                ELSE posts
    IN  {Slice([i \in DOMAIN Page(s, limit, offset) |->
                   ScanPost(Page(s, limit, offset)[i])]) :
            s \in NewestFirst(rows)}

\* MAX(created_at) of the group of an event name
LatestPost(e) == Max({p.created_at : p \in {q \in posts : q.event_name = e}})

\* DB.GetEvents: SELECT event_name ... GROUP BY event_name
\*   ORDER BY MAX(created_at) DESC
DB_GetEvents ==
    {Slice(s) : s \in {t \in Arrangements({p.event_name : p \in posts}) :
        \A i, j \in 1..Len(t) : i < j => LatestPost(t[i]) >= LatestPost(t[j])}}

\* ------------------------------------------------------------------------
\* The limit and offset parameters
\* ------------------------------------------------------------------------

Digits == <<"0", "1", "2", "3", "4", "5", "6", "7", "8", "9">>

IsDigit(ch) == \E i \in 1..Len(Digits) : Digits[i] = ch

DigitValue(ch) == (CHOOSE i \in 1..Len(Digits) : Digits[i] = ch) - 1

RECURSIVE DecimalValue(_)
DecimalValue(s) ==
    IF s = <<>> THEN 0
    ELSE 10 * DecimalValue(SubSeq(s, 1, Len(s) - 1)) + DigitValue(s[Len(s)])

\* strconv.Atoi on a string short enough for its value to fit an int: an
\* optional sign and then digits only, at least one
Atoi(s) ==
    LET signed == s # <<>> /\ s[1] \in {"+", "-"}
        digits == IF signed THEN Tail(s) ELSE s
    IN  IF digits = <<>> \/ \E i \in 1..Len(digits) : ~IsDigit(digits[i])
        THEN [err |-> TRUE, n |-> 0]
        ELSE [err |-> FALSE,
              n |-> IF s[1] = "-" THEN 0 - DecimalValue(digits)
                    ELSE DecimalValue(digits)]

\* the limit taken as parsed whenever it is positive
ParseLimit_NoCeiling(limitStr) ==
    IF limitStr # <<>> /\ ~Atoi(limitStr).err /\ Atoi(limitStr).n > 0
    THEN Atoi(limitStr).n
    ELSE 50

\* limit := 50, replaced by the parsed value when that is in 1..100
ParseLimit(limitStr) ==
    IF /\ limitStr # <<>>
       /\ ~Atoi(limitStr).err
       /\ Atoi(limitStr).n > 0
       /\ Atoi(limitStr).n <= 100
    THEN Atoi(limitStr).n
    ELSE 50

\* offset := 0, replaced by the parsed value when that is not negative
ParseOffset(offsetStr) ==
    IF offsetStr # <<>> /\ ~Atoi(offsetStr).err /\ Atoi(offsetStr).n >= 0
    THEN Atoi(offsetStr).n
    ELSE 0

\* ------------------------------------------------------------------------
\* Validation
\* ------------------------------------------------------------------------

\* the message of the ValidationError, or "nil"
validateCreatePostRequest(req) ==
    LET EventName == TrimSpace(req.event_name)
        Content == TrimSpace(req.content)
        Location == TrimSpace(req.location)
    IN  IF EventName = <<>> THEN "event_name is required"
        ELSE IF Len(EventName) > 200 THEN "event_name must be 200 characters or less"
        ELSE IF Content = <<>> THEN "content is required"
        ELSE IF Len(Content) > 5000 THEN "content must be 5000 characters or less"
        ELSE IF req.age < 1 \/ req.age > 120 THEN "age must be between 1 and 120"
        ELSE IF Location = <<>> THEN "location is required"
        ELSE IF Len(Location) > 200 THEN "location must be 200 characters or less"
        ELSE IF req.gender # <<>> /\ Len(req.gender) > 20
             THEN "gender must be 20 characters or less"
        ELSE "nil"

\* ------------------------------------------------------------------------
\* main
\* ------------------------------------------------------------------------

\* the process runs and its HTTP server has been started
ProcessUp == mainPc \in {"serving", "shutdown"}

\* godotenv.Load and the DATABASE_URL check; ok is whether both succeed
LoadConfig ==
    /\ mainPc = "start"
    /\ \E ok \in BOOLEAN :
         mainPc' = IF ok THEN "configured" ELSE "fatal"
    /\ UNCHANGED <<migVars, dbOpen, storeUp, requestLimit, windowMinutes, now, posts,
                   nextId, conn>>

\* NewDB: open and ping the store
ConnectDB ==
    /\ mainPc = "configured"
    /\ mainPc' = IF storeUp THEN "connected" ELSE "fatal"
    /\ dbOpen' = storeUp
    /\ UNCHANGED <<migVars, storeUp, requestLimit, windowMinutes, now, posts,
                   nextId, conn>>

\* NewHandler, NewRateLimiter with the configured limit and window, the
\* routes, the middleware chain and ListenAndServe; listening is whether
\* the port could be bound
StartServer ==
    /\ mainPc = "connected"
    /\ \E limit \in 1..MaxLimit, listening \in BOOLEAN :
         /\ requestLimit' = limit
         /\ windowMinutes' = WindowMinutes
         /\ mainPc' = IF listening THEN "serving" ELSE "fatal"
    /\ UNCHANGED <<migVars, dbOpen, storeUp, now, posts, nextId, conn>>

\* time passes at the store while the service is up
Tick ==
    /\ mainPc = "serving"
    /\ now < MaxTime
    /\ now' = now + 1
    /\ UNCHANGED <<migVars, dbOpen, storeUp, mainPc, requestLimit, windowMinutes, posts,
                   nextId, conn>>

\* ------------------------------------------------------------------------
\* The handler chain: LoggingMiddleware(CORSMiddleware(Limit(mux)))
\* ------------------------------------------------------------------------

Answer(c, status) ==
    conn' = [conn EXCEPT ![c].stage = "done", ![c].status = status]

\* a request reaches the server: LoggingMiddleware passes it on and
\* CORSMiddleware answers OPTIONS itself
Arrive(c, r) ==
    /\ mainPc = "serving"
    /\ conn[c].stage \in {"idle", "done"}
    /\ Cardinality(posts) < MaxPosts
    /\ conn' = [conn EXCEPT ![c] =
                  IF r.method = "OPTIONS"
                  THEN [NoRequest EXCEPT !.req = r, !.stage = "done", !.status = 200]
                  ELSE [NoRequest EXCEPT !.req = r, !.stage = "limiter"]]
    /\ UNCHANGED <<migVars, dbOpen, storeUp, mainPc, requestLimit, windowMinutes, now,
                   posts, nextId>>

\* a request arrives when no other request is being handled
ArriveInSuccession(c, r) ==
    /\ c = 1
    /\ \A k \in Conns : conn[k].stage \in {"idle", "done"}
    /\ Arrive(c, r)

\* the limiter that admits when the count has reached the limit exactly
Limit_OffByOne(c) ==
    /\ conn[c].stage = "limiter"
    /\ ProcessUp
    /\ LET r == conn[c].req
           ipHash == hashIP(getIP(r))
       IN  IF r.method # "POST"
           THEN conn' = [conn EXCEPT ![c].stage = "mux", ![c].nextCalled = TRUE]
           ELSE IF ~storeUp
           THEN conn' = [conn EXCEPT ![c].stage = "done", ![c].status = 500,
                                     ![c].queried = TRUE, ![c].identity = ipHash]
           ELSE IF GetPostCountByIPInWindow(ipHash, windowMinutes) > requestLimit
           THEN conn' = [conn EXCEPT ![c].stage = "done", ![c].status = 429,
                                     ![c].queried = TRUE, ![c].identity = ipHash]
           ELSE conn' = [conn EXCEPT ![c].stage = "mux", ![c].nextCalled = TRUE,
                                     ![c].queried = TRUE, ![c].identity = ipHash,
                                     ![c].ipHash = ipHash]
    /\ UNCHANGED <<migVars, dbOpen, storeUp, mainPc, requestLimit, windowMinutes, now,
                   posts, nextId>>

\* the limiter that lets the request through when the count query fails
Limit_FailOpen(c) ==
    /\ conn[c].stage = "limiter"
    /\ ProcessUp
    /\ LET r == conn[c].req
           ipHash == hashIP(getIP(r))
       IN  IF r.method # "POST"
           THEN conn' = [conn EXCEPT ![c].stage = "mux", ![c].nextCalled = TRUE]
           ELSE IF storeUp /\ GetPostCountByIPInWindow(ipHash, windowMinutes) >= requestLimit
           THEN conn' = [conn EXCEPT ![c].stage = "done", ![c].status = 429,
                                     ![c].queried = TRUE, ![c].identity = ipHash]
           ELSE conn' = [conn EXCEPT ![c].stage = "mux", ![c].nextCalled = TRUE,
                                     ![c].queried = TRUE, ![c].identity = ipHash,
                                     ![c].ipHash = ipHash]
    /\ UNCHANGED <<migVars, dbOpen, storeUp, mainPc, requestLimit, windowMinutes, now,
                   posts, nextId>>

\* the limiter that counts posts for every method
Limit_AllMethods(c) ==
    /\ conn[c].stage = "limiter"
    /\ ProcessUp
    /\ LET r == conn[c].req
           ipHash == hashIP(getIP(r))
       IN  IF ~storeUp
           THEN conn' = [conn EXCEPT ![c].stage = "done", ![c].status = 500,
                                     ![c].queried = TRUE, ![c].identity = ipHash]
           ELSE IF GetPostCountByIPInWindow(ipHash, windowMinutes) >= requestLimit
           THEN conn' = [conn EXCEPT ![c].stage = "done", ![c].status = 429,
                                     ![c].queried = TRUE, ![c].identity = ipHash]
           ELSE conn' = [conn EXCEPT ![c].stage = "mux", ![c].nextCalled = TRUE,
                                     ![c].queried = TRUE, ![c].identity = ipHash,
                                     ![c].ipHash = ipHash]
    /\ UNCHANGED <<migVars, dbOpen, storeUp, mainPc, requestLimit, windowMinutes, now,
                   posts, nextId>>

\* the limiter that also counts the admitted requests of the identity whose
\* handler has not answered yet
Limit_CountsAdmitted(c) ==
    /\ conn[c].stage = "limiter"
    /\ ProcessUp
    /\ LET r == conn[c].req
           ipHash == hashIP(getIP(r))
           admitted == {d \in Conns : conn[d].stage = "mux" /\ conn[d].ipHash = ipHash}
       IN  IF r.method # "POST"
           THEN conn' = [conn EXCEPT ![c].stage = "mux", ![c].nextCalled = TRUE]
           ELSE IF ~storeUp
           THEN conn' = [conn EXCEPT ![c].stage = "done", ![c].status = 500,
                                     ![c].queried = TRUE, ![c].identity = ipHash]
           ELSE IF GetPostCountByIPInWindow(ipHash, windowMinutes)
                     + Cardinality(admitted) >= requestLimit
           THEN conn' = [conn EXCEPT ![c].stage = "done", ![c].status = 429,
                                     ![c].queried = TRUE, ![c].identity = ipHash]
           ELSE conn' = [conn EXCEPT ![c].stage = "mux", ![c].nextCalled = TRUE,
                                     ![c].queried = TRUE, ![c].identity = ipHash,
                                     ![c].ipHash = ipHash]
    /\ UNCHANGED <<migVars, dbOpen, storeUp, mainPc, requestLimit, windowMinutes, now,
                   posts, nextId>>

\* RateLimiter.Limit: a request that is not a POST goes to the next handler;
\* a POST is counted, answered 500 when the count fails and 429 when the
\* count has reached the limit, and otherwise goes on with the identity in
\* its context
Limit(c) ==
    /\ conn[c].stage = "limiter"
    /\ ProcessUp
    /\ LET r == conn[c].req
           ipHash == hashIP(getIP(r))
       IN  IF r.method # "POST"
           THEN conn' = [conn EXCEPT ![c].stage = "mux", ![c].nextCalled = TRUE]
           ELSE IF ~storeUp
           THEN conn' = [conn EXCEPT ![c].stage = "done", ![c].status = 500,
                                     ![c].queried = TRUE, ![c].identity = ipHash]
           ELSE IF GetPostCountByIPInWindow(ipHash, windowMinutes) >= requestLimit
           THEN conn' = [conn EXCEPT ![c].stage = "done", ![c].status = 429,
                                     ![c].queried = TRUE, ![c].identity = ipHash]
           ELSE conn' = [conn EXCEPT ![c].stage = "mux", ![c].nextCalled = TRUE,
                                     ![c].queried = TRUE, ![c].identity = ipHash,
                                     ![c].ipHash = ipHash]
    /\ UNCHANGED <<migVars, dbOpen, storeUp, mainPc, requestLimit, windowMinutes, now,
                   posts, nextId>>

\* the handler that inserts the decoded request before validating it
CreatePost_InsertFirst(c) ==
    LET body == conn[c].req.body
    IN  IF ~body.decodes
        THEN Answer(c, 400) /\ UNCHANGED <<posts, nextId>>
        ELSE IF ~storeUp \/ InsertRefused(body.fields)
        THEN Answer(c, 500) /\ UNCHANGED <<posts, nextId>>
        ELSE /\ posts' = posts \cup {NewPost(body.fields, CreatorIPHash(c))}
             /\ nextId' = nextId + 1
             /\ IF validateCreatePostRequest(body.fields) # "nil"
                THEN Answer(c, 400)
                ELSE conn' = [conn EXCEPT ![c].stage = "done", ![c].status = 201,
                                          ![c].created = nextId]

\* Handler.CreatePost: decode, validate, take the identity, insert
CreatePost(c) ==
    LET body == conn[c].req.body
    IN  IF ~body.decodes \/ validateCreatePostRequest(body.fields) # "nil"
        THEN Answer(c, 400) /\ UNCHANGED <<posts, nextId>>
        ELSE IF ~storeUp \/ InsertRefused(body.fields)
        THEN Answer(c, 500) /\ UNCHANGED <<posts, nextId>>
        ELSE /\ posts' = posts \cup {NewPost(body.fields, CreatorIPHash(c))}
             /\ nextId' = nextId + 1
             /\ conn' = [conn EXCEPT ![c].stage = "done", ![c].status = 201,
                                     ![c].created = nextId]

\* the slice a handler answers with when the store gave it the nil slice
NonNil_Kept(slice) == slice

\* if posts == nil { posts = []Post{} }
NonNil(slice) ==
    IF slice.isNil THEN [isNil |-> FALSE, items |-> <<>>] ELSE slice

\* Handler.GetPosts: parse the parameters, query the store, answer the page
GetPosts(c) ==
    LET q == conn[c].req.query
        limit == ParseLimit(q.limit)
        offset == ParseOffset(q.offset)
    IN  /\ IF ~storeUp
           THEN conn' = [conn EXCEPT ![c].stage = "done", ![c].status = 500,
                                     ![c].limit = limit, ![c].offset = offset]
           ELSE \E found \in DB_GetPosts(q.event, limit, offset) :
                   conn' = [conn EXCEPT ![c].stage = "done", ![c].status = 200,
                                        ![c].limit = limit, ![c].offset = offset,
                                        ![c].body = NonNil(found)]
        /\ UNCHANGED <<posts, nextId>>

\* Handler.GetEvents
GetEvents(c) ==
    /\ IF ~storeUp
       THEN Answer(c, 500)
       ELSE \E found \in DB_GetEvents :
               conn' = [conn EXCEPT ![c].stage = "done", ![c].status = 200,
                                    ![c].body = NonNil(found)]
    /\ UNCHANGED <<posts, nextId>>

\* the routes of the mux and the method switch of each
ServeMux(c) ==
    /\ conn[c].stage = "mux"
    /\ ProcessUp
    /\ LET r == conn[c].req
       IN  IF r.path = "/api/posts"
           THEN IF r.method = "GET" THEN GetPosts(c)
                ELSE IF r.method = "POST" THEN CreatePost(c)
                ELSE IF r.method = "OPTIONS" THEN Answer(c, 200) /\ UNCHANGED <<posts, nextId>>
                ELSE Answer(c, 405) /\ UNCHANGED <<posts, nextId>>
           ELSE IF r.path = "/api/events"
           THEN IF r.method = "GET" THEN GetEvents(c)
                ELSE IF r.method = "OPTIONS" THEN Answer(c, 200) /\ UNCHANGED <<posts, nextId>>
                ELSE Answer(c, 405) /\ UNCHANGED <<posts, nextId>>
           ELSE IF r.path = "/health"
           THEN Answer(c, 200) /\ UNCHANGED <<posts, nextId>>
           ELSE Answer(c, 404) /\ UNCHANGED <<posts, nextId>>
    /\ UNCHANGED <<migVars, dbOpen, storeUp, mainPc, requestLimit, windowMinutes, now>>

\* ------------------------------------------------------------------------
\* The service handling one request after another
\* ------------------------------------------------------------------------

Init ==
    /\ ServerNotStarted
    /\ listing = <<File(<<"1", ".", "s", "q", "l">>)>>
    /\ storeUp = TRUE
    /\ tableExists = FALSE
    /\ schema_migrations = {}
    /\ execLog = <<>>
    /\ recordLog = <<>>
    /\ rpc = [r \in Runs |-> "idle"]
    /\ sortedFiles = [r \in Runs |-> <<>>]
    /\ idx = [r \in Runs |-> 0]

Next ==
    \/ LoadConfig
    \/ ConnectDB
    \/ StartServer
    \/ StoreFails
    \/ StoreRecovers
    \/ Tick
    \/ \E c \in Conns, r \in Requests : ArriveInSuccession(c, r)
    \/ \E c \in Conns : Limit(c)
    \/ \E c \in Conns : ServeMux(c)

Spec == Init /\ [][Next]_vars

\* ------------------------------------------------------------------------
\* Properties of the migration runner
\* ------------------------------------------------------------------------

\* the scripts of the directory: regular files whose name ends in .sql
Scripts ==
    {listing[i].name : i \in {j \in 1..Len(listing) :
        ~listing[j].isDir /\ HasSuffix(listing[j].name, SqlSuffix)}}

ExecsOf(r) == {i \in 1..Len(execLog) : execLog[i].run = r}

\* C1: when runMigrations is executed again after an execution that
\* returned normally, with the same directory and store, the later execution
\* asks the store to execute nothing and records nothing (the recorded
\* versions stay exactly those left by the earlier execution), and over the
\* two executions together no script is executed more than once.
C1_RerunChangesNothing ==
    [][ (\E k \in Runs : rpc[k] = "returned") =>
          /\ schema_migrations' = schema_migrations
          /\ execLog' = execLog
          /\ \A k \in Runs : \A i, j \in ExecsOf(k) \cup ExecsOf(k + 1) :
                (rpc[k] = "returned" /\ execLog[i].file = execLog[j].file) => i = j
      ]_vars

\* an execution applied two scripts and returned, and the next execution
\* went through both and returned as well
C1_Witness ==
    \E k \in Runs :
        /\ k + 1 \in Runs
        /\ rpc[k] = "returned" /\ rpc[k + 1] = "returned"
        /\ Cardinality(ExecsOf(k)) >= 2
        /\ Len(sortedFiles[k + 1]) >= 2

\* C2: whatever order the file system lists the directory in, an execution
\* runs scripts in ascending byte order of filename, and while it reads,
\* executes or records a script no script with a lower filename is pending.
C2_LexicalOrder ==
    /\ \A i, j \in 1..Len(execLog) :
          (i < j /\ execLog[i].run = execLog[j].run)
              => StrLess(execLog[i].file, execLog[j].file)
    /\ \A r \in Runs : rpc[r] \in {"read_file", "exec", "record"} =>
          \A f \in Scripts :
              StrLess(f, sortedFiles[r][idx[r]])
                  => SubSeq(f, 1, Len(f) - 4) \in schema_migrations

\* the file system lists one script before another that sorts lower, and a
\* single execution has executed both
C2_Witness ==
    /\ \E a, b \in 1..Len(listing) :
          /\ a < b
          /\ listing[a].name \in Scripts /\ listing[b].name \in Scripts
          /\ StrLess(listing[b].name, listing[a].name)
          /\ \E i, j \in 1..Len(execLog) :
                /\ execLog[i].run = execLog[j].run
                /\ execLog[i].file = listing[a].name
                /\ execLog[j].file = listing[b].name

\* the store has just failed to execute a script for execution r
ExecJustFailed(r) ==
    /\ Len(execLog') = Len(execLog) + 1
    /\ execLog'[Len(execLog')].run = r
    /\ ~execLog'[Len(execLog')].ok

\* C3: when the store fails to execute a script the execution ends fatally
\* at that step: the recorded versions are left as they were, the failing
\* version is not among them, and a fatally ended execution stays ended, so
\* it executes and records no later script and never returns to a caller
\* that could go on to serve requests.
C3_FailureIsFatal ==
    [][ \A r \in Runs :
          /\ ExecJustFailed(r) =>
                /\ rpc'[r] = "fatal"
                /\ schema_migrations' = schema_migrations
                /\ Version(execLog'[Len(execLog')].file) \notin schema_migrations'
          /\ rpc[r] = "fatal" =>
                /\ rpc'[r] = "fatal"
                /\ ExecsOf(r)' = ExecsOf(r)
                /\ idx'[r] = idx[r]
      ]_vars

\* an execution recorded one version, then failed on a later script while
\* another script was still to come
C3_Witness ==
    \E r \in Runs :
        /\ rpc[r] = "fatal"
        /\ \E i \in ExecsOf(r) : execLog[i].ok
        /\ \E i \in ExecsOf(r) : ~execLog[i].ok
        /\ idx[r] < Len(sortedFiles[r])
        /\ schema_migrations # {}

\* C4: when an execution has returned normally every script of the
\* directory has its version (the name without .sql) recorded; with an
\* empty directory nothing was executed and nothing recorded.
C4_ReturnMeansAllRecorded ==
    \A r \in Runs : rpc[r] = "returned" =>
        /\ \A f \in Scripts : SubSeq(f, 1, Len(f) - 4) \in schema_migrations
        /\ listing = <<>> => (execLog = <<>> /\ schema_migrations = {})

\* an execution returned after recording two scripts of a directory that
\* also holds an entry that is not a script
C4_Witness ==
    \E r \in Runs :
        /\ rpc[r] = "returned"
        /\ Cardinality(Scripts) >= 2
        /\ Cardinality(Scripts) < Len(listing)
        /\ Cardinality(ExecsOf(r)) >= 2

\* an execution returned normally on an empty directory
C4_WitnessEmpty ==
    \E r \in Runs : rpc[r] = "returned" /\ listing = <<>>

\* ------------------------------------------------------------------------
\* Properties of startup and of the rate limiter
\* ------------------------------------------------------------------------

\* C5: no request is handled before an execution of runMigrations has
\* returned normally.
C5_MigrationsBeforeRequests ==
    \A c \in Conns :
        conn[c].stage # "idle" => \E r \in Runs : rpc[r] = "returned"

\* the limiter has just decided the POST on connection c
LimiterDecidedPost(c) ==
    /\ conn[c].stage = "limiter"
    /\ conn[c].req.method = "POST"
    /\ conn'[c] # conn[c]

\* the posts of the caller on connection c created less than windowMinutes
\* before now
InWindow(c) ==
    {p \in posts : /\ p.ip_hash = hashIP(getIP(conn[c].req))
                   /\ now - p.created_at < windowMinutes}

\* C6: with requests handled one after another, a POST whose count query
\* is answered is admitted exactly when fewer than requestLimit posts of its
\* identity were created strictly after now - windowMinutes, and is answered
\* 429 otherwise.
C6_SlidingWindow ==
    [][ \A c \in Conns : (LimiterDecidedPost(c) /\ storeUp) =>
          /\ conn'[c].nextCalled <=> Cardinality(InWindow(c)) < requestLimit
          /\ ~conn'[c].nextCalled => conn'[c].status = 429
      ]_vars

\* a POST is rejected while its identity has exactly requestLimit posts in
\* the window and an older post that no longer counts
C6_Witness ==
    \E c \in Conns :
        /\ conn[c].status = 429
        /\ Cardinality(InWindow(c)) = requestLimit
        /\ \E p \in posts : /\ p.ip_hash = conn[c].identity
                            /\ now - p.created_at >= windowMinutes

\* C7: when the count for the caller's identity has reached the limit, the
\* POST is answered 429 by the limiter, the next handler is not called, and
\* the request leaves posts as it was.
C7_RejectedWritesNothing ==
    [][ \A c \in Conns :
          ( /\ LimiterDecidedPost(c)
            /\ storeUp
            /\ GetPostCountByIPInWindow(hashIP(getIP(conn[c].req)), windowMinutes)
                 >= requestLimit ) =>
          /\ conn'[c].stage = "done"
          /\ conn'[c].status = 429
          /\ ~conn'[c].nextCalled
          /\ conn'[c].created = 0
          /\ posts' = posts
      ]_vars

\* a valid POST to the posts route was answered 429
C7_Witness ==
    \E c \in Conns :
        /\ conn[c].stage = "done"
        /\ conn[c].status = 429
        /\ conn[c].req.path = "/api/posts"
        /\ conn[c].req.body = ValidBody
        /\ posts # {}

\* C8: when the count query fails, the POST is answered 500 by the limiter,
\* the next handler is not called and no post is written.
C8_FailClosed ==
    [][ \A c \in Conns : (LimiterDecidedPost(c) /\ ~storeUp) =>
          /\ conn'[c].stage = "done"
          /\ conn'[c].status = 500
          /\ ~conn'[c].nextCalled
          /\ conn'[c].created = 0
          /\ posts' = posts
      ]_vars

\* a valid POST from a caller under the limit was answered 500 by the
\* limiter
C8_Witness ==
    \E c \in Conns :
        /\ conn[c].stage = "done"
        /\ conn[c].status = 500
        /\ ~conn[c].nextCalled
        /\ conn[c].req.body = ValidBody
        /\ Cardinality(InWindow(c)) < requestLimit

\* C9: a request that is not a POST is passed by the limiter to the next
\* handler without a count query, whatever the caller's count and the state
\* of the store.
C9_ReadsUngated ==
    [][ \A c \in Conns :
          ( /\ conn[c].stage = "limiter"
            /\ conn[c].req.method # "POST"
            /\ conn'[c] # conn[c] ) =>
          /\ conn'[c].stage = "mux"
          /\ conn'[c].nextCalled
          /\ ~conn'[c].queried
          /\ conn'[c].status = 0
      ]_vars

\* a GET from a caller at its limit passed the limiter while the store was
\* failing
C9_Witness ==
    \E c \in Conns :
        /\ conn[c].stage = "mux"
        /\ conn[c].req.method = "GET"
        /\ ~storeUp
        /\ Cardinality(InWindow(c)) >= requestLimit

\* C10: the ip_hash stored with a created post is the identity the limiter
\* counted for the same request.
C10_StoredIdentityIsCountedIdentity ==
    \A c \in Conns : conn[c].created # 0 =>
        \E p \in posts : /\ p.id = conn[c].created
                         /\ p.ip_hash = conn[c].identity
                         /\ conn[c].identity = hashIP(getIP(conn[c].req))

\* a post was created by a request carrying both address headers, whose
\* identity is not that of its peer address
C10_Witness ==
    \E c \in Conns :
        /\ conn[c].created # 0
        /\ conn[c].req.xff # <<>>
        /\ conn[c].req.realIP # <<>>
        /\ conn[c].identity # computeIPHash(conn[c].req)

\* ------------------------------------------------------------------------
\* The service handling requests concurrently
\* ------------------------------------------------------------------------

\* valid requests to create a post that carry the forwarded-for header,
\* with and without the real-IP header: two requests of one identity
ConcurrentRequests ==
    {r \in CreateRequests : r.body = ValidBody /\ r.xff # <<>>}

\* a request arrives while others are being handled; it is given the first
\* connection that is not handling one
ArriveConcurrently(c, r) ==
    /\ \A k \in Conns : k < c => conn[k].stage \in {"limiter", "mux"}
    /\ Arrive(c, r)

\* the store stays up
NextConc ==
    \/ LoadConfig
    \/ ConnectDB
    \/ StartServer
    \/ Tick
    \/ \E c \in Conns, r \in ConcurrentRequests : ArriveConcurrently(c, r)
    \/ \E c \in Conns : Limit(c)
    \/ \E c \in Conns : ServeMux(c)

SpecConc == Init /\ [][NextConc]_vars

\* the posts of an identity created less than windowMinutes before now
PostsInWindow(ipHash) ==
    {p \in posts : p.ip_hash = ipHash /\ now - p.created_at < windowMinutes}

\* C11: with requests handled concurrently, a POST whose identity has
\* requestLimit - 1 posts in the window is admitted even while another
\* request of the same identity has been admitted and has not inserted its
\* post yet, so both go on to insert.
C11_BothAdmitted ==
    [][ \A c, d \in Conns :
          ( /\ LimiterDecidedPost(c)
            /\ storeUp
            /\ d # c
            /\ conn[d].stage = "mux"
            /\ conn[d].req.method = "POST"
            /\ conn[d].ipHash = hashIP(getIP(conn[c].req))
            /\ Cardinality(PostsInWindow(conn[d].ipHash)) = requestLimit - 1 ) =>
          /\ conn'[c].stage = "mux"
          /\ conn'[c].nextCalled
      ]_vars

\* two requests of one identity were both answered 201 and the identity
\* has requestLimit + 1 posts inside the window
C11_Witness ==
    \E c, d \in Conns :
        /\ c # d
        /\ conn[c].status = 201 /\ conn[d].status = 201
        /\ conn[c].identity = conn[d].identity
        /\ Cardinality(PostsInWindow(conn[c].identity)) = requestLimit + 1

\* ------------------------------------------------------------------------
\* Validation at the boundaries of age and content
\* ------------------------------------------------------------------------

\* strings.Repeat
Repeat(s, n) == [i \in 1..(n * Len(s)) |-> s[((i - 1) % Len(s)) + 1]]

BoundaryAges == {-1, 0, 1, 2, 119, 120, 121, 122}

BoundaryContents ==
    {Repeat(<<"x">>, n) : n \in {0, 1, 4999, 5000, 5001}}
    \cup {Repeat(EAcute, n) : n \in {2500, 2501, 5000}}
    \cup {<<" ">> \o Repeat(<<"x">>, n) : n \in {5000, 5001}}
    \cup {Repeat(<<"x">>, 5000) \o <<"\n">>,
          <<"c2", "a0">> \o Repeat(<<"x">>, 5000)}

\* requests to create a post whose age and content are around the limits
BoundaryRequests ==
    [method : {"POST"}, path : {"/api/posts"}, query : {NoQuery}, xff : {<<>>},
     realIP : {<<>>}, remoteAddr : RemoteAddrs,
     body : {[ValidBody EXCEPT !.fields.age = a, !.fields.content = s] :
               a \in BoundaryAges, s \in BoundaryContents}]

\* a request arrives at a service that holds no post yet
ArriveFirst(c, r) ==
    /\ posts = {}
    /\ ArriveInSuccession(c, r)

NextValidate ==
    \/ LoadConfig \/ ConnectDB \/ StartServer
    \/ \E c \in Conns, r \in BoundaryRequests : ArriveFirst(c, r)
    \/ \E c \in Conns : Limit(c)
    \/ \E c \in Conns : ServeMux(c)

SpecValidate == Init /\ [][NextValidate]_vars

\* CreatePost has answered the request on connection c
CreatePostAnswered(c) ==
    /\ conn[c].stage = "done" /\ conn[c].nextCalled
    /\ conn[c].req.method = "POST" /\ conn[c].req.path = "/api/posts"
    /\ conn[c].req.body.decodes

\* C12: with the other fields valid and the store up, a request to create a
\* post is rejected with 400 exactly when its age is outside 1..120, a
\* content of 5001 characters is rejected and a content of 5000 characters
\* is accepted.
C12_Boundaries ==
    \A c \in Conns : (CreatePostAnswered(c) /\ storeUp) =>
        LET f == conn[c].req.body.fields
        IN  /\ Len(f.content) = 1 => (conn[c].status = 400 <=> ~(f.age \in 1..120))
            /\ (f.age \in 1..120 /\ RuneCount(f.content) = 5001) => conn[c].status = 400
            /\ (f.age \in 1..120 /\ RuneCount(f.content) = 5000) => conn[c].status = 201

\* ------------------------------------------------------------------------
\* Outcomes of a request to create a post
\* ------------------------------------------------------------------------

\* the request on connection c, a POST to the posts route, is answered in
\* this step
CreateAnswered(c) ==
    /\ conn[c].stage \in {"limiter", "mux"}
    /\ conn[c].req.method = "POST" /\ conn[c].req.path = "/api/posts"
    /\ conn'[c].stage = "done"

\* the body decodes and passes validation
ValidRequest(r) ==
    r.body.decodes /\ validateCreatePostRequest(r.body.fields) = "nil"

\* C13: a POST to the posts route is answered 429 when the limiter finds
\* the caller at its limit, 500 when the store fails at the count or fails
\* or refuses the insert, 400 when it is admitted and its body is invalid,
\* and 201 with the
\* created post when it is admitted, valid and inserted, and with nothing
\* else; posts gains a row exactly in the steps that answer 201.
C13_OneOutcome ==
    [][ /\ \A c \in Conns : CreateAnswered(c) =>
             LET r == conn[c].req
                 admitted == conn[c].stage = "mux"
                 status == conn'[c].status
             IN  /\ status \in {201, 400, 429, 500}
                 /\ status = 429 <=>
                      /\ ~admitted /\ storeUp
                      /\ Cardinality(InWindow(c)) >= requestLimit
                 /\ status = 400 <=> admitted /\ ~ValidRequest(r)
                 /\ status = 500 <=>
                      IF admitted
                      THEN ValidRequest(r) /\ (~storeUp \/ InsertRefused(r.body.fields))
                      ELSE ~storeUp
                 /\ status = 201 <=>
                      /\ admitted /\ ValidRequest(r)
                      /\ storeUp /\ ~InsertRefused(r.body.fields)
                 /\ status = 201 <=> posts' # posts
                 /\ status = 201 =>
                      \E p \in posts' \ posts :
                         /\ posts' = posts \cup {p}
                         /\ p.id = conn'[c].created
                         /\ p.created_at = now
                         /\ \A q \in posts : q.id # p.id
                         /\ [f \in DOMAIN r.body.fields |-> p[f]] =
                              StoredFields(r.body.fields)
                 /\ status # 201 => conn'[c].created = 0
        /\ posts' # posts => \E c \in Conns : CreateAnswered(c)
      ]_vars

\* a post exists and an admitted, valid POST was answered 500 at the insert
C13_Witness ==
    /\ posts # {}
    /\ \E c \in Conns :
         /\ conn[c].stage = "done" /\ conn[c].status = 500 /\ conn[c].nextCalled
         /\ conn[c].req.method = "POST" /\ conn[c].req.path = "/api/posts"
         /\ ValidRequest(conn[c].req)

\* ------------------------------------------------------------------------
\* The page asked of the store
\* ------------------------------------------------------------------------

\* values of the limit and offset parameters: absent, zero, inside and
\* above the range, signed, padded with zeros, and not a number
QueryValues ==
    {<<>>, <<"0">>, <<"1">>, <<"5", "0">>, <<"1", "0", "0">>, <<"1", "0", "1">>,
     <<"-", "1">>, <<"+", "7">>, <<"0", "0", "7">>, <<"a">>, <<"1", "a">>,
     <<"-">>, <<"1", ".", "5">>}

QueryRequests ==
    [method : {"GET"}, path : {"/api/posts"},
     query : [event : {<<>>}, limit : QueryValues, offset : QueryValues],
     xff : {<<>>}, realIP : {<<>>}, remoteAddr : RemoteAddrs, body : {NoBody}]

NextQuery ==
    \/ LoadConfig \/ ConnectDB \/ StartServer
    \/ \E c \in Conns, r \in QueryRequests : ArriveFirst(c, r)
    \/ \E c \in Conns : Limit(c)
    \/ \E c \in Conns : ServeMux(c)

SpecQuery == Init /\ [][NextQuery]_vars

\* Handler.GetPosts has answered the request on connection c
GetPostsAnswered(c) ==
    /\ conn[c].stage = "done" /\ conn[c].nextCalled
    /\ conn[c].req.method = "GET" /\ conn[c].req.path = "/api/posts"

\* C14: whatever the limit and offset parameters are, the limit passed to
\* the store query is in 1..100 and is 50 when the parameter is absent, and
\* the offset passed is at least 0 and is 0 when the parameter is absent.
C14_ClampedParameters ==
    \A c \in Conns : GetPostsAnswered(c) =>
        /\ conn[c].limit \in 1..100
        /\ conn[c].req.query.limit = <<>> => conn[c].limit = 50
        /\ conn[c].offset >= 0
        /\ conn[c].req.query.offset = <<>> => conn[c].offset = 0

\* a listing asked with limit=101 and offset=-1 queried the store with
\* limit 50 and offset 0
C14_Witness ==
    \E c \in Conns :
        /\ GetPostsAnswered(c)
        /\ conn[c].req.query.limit = <<"1", "0", "1">>
        /\ conn[c].req.query.offset = <<"-", "1">>
        /\ conn[c].limit = 50 /\ conn[c].offset = 0

\* ------------------------------------------------------------------------
\* Creating posts and listing them
\* ------------------------------------------------------------------------

\* two short event names, and one of 200 characters followed by a space,
\* which validation accepts because it measures the trimmed name
EventNames == {<<"a">>, <<"b">>, Repeat(<<"a">>, 200) \o <<" ">>}

\* a valid body for the event e
EventBody(e) == [ValidBody EXCEPT !.fields.event_name = e]

EventRequests ==
    [method : {"POST"}, path : {"/api/posts"}, query : {NoQuery}, xff : {<<>>},
     realIP : {<<>>}, remoteAddr : RemoteAddrs,
     body : {EventBody(e) : e \in EventNames}]

\* listings of every event, of each event and of an event without posts,
\* whole and by pages of one, and the listing of the event names
ListRequests ==
    [method : {"GET"}, path : {"/api/posts"},
     query : [event : {<<>>, <<"x">>} \cup EventNames, limit : {<<>>, <<"1">>},
              offset : {<<>>, <<"1">>}],
     xff : {<<>>}, realIP : {<<>>}, remoteAddr : RemoteAddrs, body : {NoBody}]
    \cup
    [method : {"GET"}, path : {"/api/events"}, query : {NoQuery},
     xff : {<<>>}, realIP : {<<>>}, remoteAddr : RemoteAddrs, body : {NoBody}]

\* the store stays up
NextList ==
    \/ LoadConfig \/ ConnectDB \/ StartServer \/ Tick
    \/ \E c \in Conns, r \in EventRequests \cup ListRequests :
          ArriveInSuccession(c, r)
    \/ \E c \in Conns : Limit(c)
    \/ \E c \in Conns : ServeMux(c)

SpecList == Init /\ [][NextList]_vars

\* the posts a listing with the event parameter e selects
Selected(e) == {p \in posts : e = <<>> \/ p.event_name = e}

\* C15: in the step that answers 201 to a valid request to create a post
\* with event name E, every listing the store then gives for event=E, from
\* offset 0 with the default limit, holds that post with the submitted field
\* values, the id returned and the time of the creation; and a listing that
\* is answered holds only rows whose event name equals the event parameter,
\* each at most once, newest first.
C15_RoundTrip ==
    /\ [][\A c \in Conns : (CreateAnswered(c) /\ conn'[c].status = 201) =>
             LET submitted == conn[c].req.body.fields
             IN  \A result \in (DB_GetPosts(submitted.event_name, 50, 0))' :
                    \E i \in 1..Len(result.items) :
                       LET item == result.items[i]
                       IN  /\ [f \in DOMAIN submitted |-> item[f]] = submitted
                           /\ item.id = conn'[c].created
                           /\ item.id \notin {p.id : p \in posts}
                           /\ item.created_at = now
          ]_vars
    /\ [](\A c \in Conns : (GetPostsAnswered(c) /\ conn[c].status = 200) =>
            LET items == conn[c].body.items
                rows == Selected(conn[c].req.query.event)
            IN  /\ \A i \in 1..Len(items) : \E p \in rows : items[i] = ScanPost(p)
                /\ \A i, j \in 1..Len(items) :
                     /\ i < j => items[i].created_at >= items[j].created_at
                     /\ items[i] = items[j] => i = j)

\* Handler.GetPosts or Handler.GetEvents has answered 200 on connection c
ListingAnswered(c) ==
    /\ conn[c].stage = "done" /\ conn[c].nextCalled /\ conn[c].status = 200
    /\ conn[c].req.method = "GET"
    /\ conn[c].req.path \in {"/api/posts", "/api/events"}

\* the rows the store had for the listing on connection c
RowsFor(c) ==
    IF conn[c].req.path = "/api/posts"
    THEN Selected(conn[c].req.query.event)
    ELSE posts

\* C16: the collection in the answer of a listing of posts or of events is
\* never null, and it is the empty sequence when the store has no row for
\* the listing.
C16_NeverNull ==
    \A c \in Conns : ListingAnswered(c) =>
        /\ ~conn[c].body.isNil
        /\ RowsFor(c) = {} => conn[c].body.items = <<>>

\* posts were listed by an event that none of the existing posts has
C16_Witness ==
    \E c \in Conns :
        /\ ListingAnswered(c)
        /\ RowsFor(c) = {}
        /\ conn[c].body = [isNil |-> FALSE, items |-> <<>>]
        /\ conn[c].req.path = "/api/posts" /\ posts # {}

\* ------------------------------------------------------------------------
\* The routes the limiter stands before
\* ------------------------------------------------------------------------

\* C17: a request to a route other than the posts route is never answered
\* 429 or 500 by the limiter, and a request to the health route is answered
\* 200 in every state of the store and of the caller's count.
C17_GatesPostsOnly ==
    \A c \in Conns :
        (conn[c].stage = "done" /\ conn[c].req.path # "/api/posts") =>
            /\ ~(~conn[c].nextCalled /\ conn[c].status \in {429, 500})
            /\ conn[c].req.path = "/health" => conn[c].status = 200

\* ------------------------------------------------------------------------
\* Callers do not affect one another
\* ------------------------------------------------------------------------

\* the identities callers can have
Identities == {hashIP(getIP(r)) : r \in Requests}

\* C18: the limiter admits a POST of identity A exactly when fewer than
\* requestLimit posts of A lie inside the window, and a step that handles a
\* POST of another identity, admitted, rejected or inserted, leaves the posts
\* of A inside the window as they were.
C18_OtherCallersUnaffected ==
    [][ /\ \A c \in Conns : (LimiterDecidedPost(c) /\ storeUp) =>
             (conn'[c].nextCalled <=>
                Cardinality(PostsInWindow(hashIP(getIP(conn[c].req)))) < requestLimit)
        /\ \A d \in Conns :
             ( /\ conn[d].stage \in {"limiter", "mux"}
               /\ conn[d].req.method = "POST"
               /\ conn'[d] # conn[d] ) =>
             \A A \in Identities \ {hashIP(getIP(conn[d].req))} :
                 PostsInWindow(A)' = PostsInWindow(A)
      ]_vars

\* a POST of one identity was admitted and created while another identity
\* had reached the limit inside the window
C18_Witness ==
    \E c \in Conns :
        /\ conn[c].status = 201
        /\ \E B \in Identities \ {conn[c].identity} :
              /\ Cardinality(PostsInWindow(B)) >= requestLimit
              /\ \A p \in PostsInWindow(B) : p.id < conn[c].created

\* ------------------------------------------------------------------------
\* A script is applied once
\* ------------------------------------------------------------------------

\* C19: over the executions of the runner against one store, those that end
\* fatally at the execute step or at the record step included, the store
\* executes the text of a script with success at most once.
C19_AppliedAtMostOnce ==
    \A i, j \in 1..Len(execLog) :
        (execLog[i].file = execLog[j].file /\ execLog[i].ok /\ execLog[j].ok) => i = j

\* ------------------------------------------------------------------------
\* Runner processes sharing one store
\* ------------------------------------------------------------------------

\* the store stays up; a process may call runMigrations while another is
\* inside it
NextMigConc ==
    \/ \E r \in Runs : StartRun(r)
    \/ \E r \in Runs : RunStep(r)

\* the directories of fewer than MaxFiles entries
InitMigConc ==
    /\ InitMig
    /\ Len(listing) < MaxFiles

SpecMigConc == InitMigConc /\ [][NextMigConc]_vars

\* the script the execution r is at
CurrentFile(r) == sortedFiles[r][idx[r]]

\* C20: with runner processes interleaved on one store, no version is
\* recorded twice; a runner moves down its list only, executes only the
\* script at its position, and goes past a script without executing it when
\* its check finds the version recorded; and a runner whose INSERT meets a
\* version already recorded ends fatally, leaving the records as they were.
C20_ConcurrentRunners ==
    /\ [](/\ \A i, j \in 1..Len(recordLog) : recordLog[i] = recordLog[j] => i = j
          /\ schema_migrations = {recordLog[i] : i \in 1..Len(recordLog)})
    /\ [][ \A r \in Runs :
             /\ idx'[r] >= idx[r]
             /\ (execLog' # execLog /\ rpc'[r] # rpc[r]) =>
                  /\ rpc[r] = "exec"
                  /\ execLog' = Append(execLog, execLog'[Len(execLog')])
                  /\ execLog'[Len(execLog')].file = CurrentFile(r)
             /\ ( /\ rpc[r] = "check" /\ rpc'[r] # rpc[r]
                  /\ Version(CurrentFile(r)) \in schema_migrations ) =>
                  /\ idx'[r] = idx[r] + 1
                  /\ rpc'[r] \in {"check", "returned"}
                  /\ execLog' = execLog
             /\ ( /\ rpc[r] = "record" /\ rpc'[r] # rpc[r]
                  /\ Version(CurrentFile(r)) \in schema_migrations ) =>
                  /\ rpc'[r] = "fatal"
                  /\ schema_migrations' = schema_migrations
                  /\ recordLog' = recordLog
         ]_vars

\* two runners executed the same script, one recorded it, and the other
\* ended fatally at its INSERT
C20_Witness ==
    \E r, k \in Runs :
        /\ r # k
        /\ rpc[r] = "fatal" /\ idx[r] >= 1
        /\ Version(CurrentFile(r)) \in schema_migrations
        /\ \E i, j \in 1..Len(execLog) :
              /\ execLog[i] = [run |-> r, file |-> CurrentFile(r), ok |-> TRUE]
              /\ execLog[j] = [run |-> k, file |-> CurrentFile(r), ok |-> TRUE]

\* ------------------------------------------------------------------------
\* The rows as stored
\* ------------------------------------------------------------------------

\* bodies that pass validation or come close: texts at their limits, with
\* and without spaces around them
StoredRequests ==
    [method : {"POST"}, path : {"/api/posts"}, query : {NoQuery}, xff : {<<>>},
     realIP : {<<>>}, remoteAddr : RemoteAddrs,
     body : {[decodes |-> TRUE,
              fields |-> [event_name |-> e, content |-> s, age |-> a,
                          gender |-> <<>>, location |-> l]] :
               a \in {1, 120},
               e \in {<<"a">>, <<" ", "a">>, <<"\t", "a">>, <<"c2", "a0", "a">>,
                      Repeat(<<"a">>, 200),
                      Repeat(<<"a">>, 200) \o <<" ">>,
                      Repeat(<<"a">>, 200) \o <<"\n">>,
                      <<" ">> \o Repeat(<<"a">>, 200)},
               s \in {<<"x">>, <<" ", "x", " ">>, Repeat(<<"x">>, 5000),
                      <<" ">> \o Repeat(<<"x">>, 5000),
                      Repeat(<<"x">>, 5000) \o <<"\r", "\n">>},
               l \in {<<"c">>, Repeat(<<"c">>, 200) \o <<" ">>}}]

NextStored ==
    \/ LoadConfig \/ ConnectDB \/ StartServer
    \/ \E c \in Conns, r \in StoredRequests : ArriveFirst(c, r)
    \/ \E c \in Conns : Limit(c)
    \/ \E c \in Conns : ServeMux(c)

SpecStored == Init /\ [][NextStored]_vars

\* C21: every row of posts holds an age in 1..120, an event name and a
\* location of 1 to 200 characters, and a content of 1 to 5000 characters.
C21_StoredRowsBounded ==
    \A p \in posts :
        /\ p.age \in 1..120
        /\ RuneCount(p.event_name) \in 1..200
        /\ RuneCount(p.content) \in 1..5000
        /\ RuneCount(p.location) \in 1..200

\* ------------------------------------------------------------------------
\* Shutdown
\* ------------------------------------------------------------------------

InFlight == {c \in Conns : conn[c].stage \in {"limiter", "mux"}}

\* <-quit: SIGINT or SIGTERM arrives and main calls srv.Shutdown with a
\* context of 30 seconds, which closes the listeners
Signal ==
    /\ mainPc = "serving"
    /\ mainPc' = "shutdown"
    /\ UNCHANGED <<migVars, dbOpen, storeUp, requestLimit, windowMinutes, now,
                   posts, nextId, conn>>

\* srv.Shutdown returns nil once no connection is handling a request
ShutdownReturns ==
    /\ mainPc = "shutdown"
    /\ InFlight = {}
    /\ mainPc' = "stopped"
    /\ UNCHANGED <<migVars, dbOpen, storeUp, requestLimit, windowMinutes, now,
                   posts, nextId, conn>>

\* the 30 seconds pass while a request is still being handled: srv.Shutdown
\* returns the context's error and log.Fatalf exits the process, which
\* runs no deferred call
ShutdownTimesOut ==
    /\ mainPc = "shutdown"
    /\ InFlight # {}
    /\ mainPc' = "forced"
    /\ UNCHANGED <<migVars, dbOpen, storeUp, requestLimit, windowMinutes, now,
                   posts, nextId, conn>>

\* main returns: the deferred cancel and db.Close run and the process exits
MainReturns ==
    /\ mainPc = "stopped"
    /\ mainPc' = "exited"
    /\ dbOpen' = FALSE
    /\ UNCHANGED <<migVars, storeUp, requestLimit, windowMinutes, now, posts,
                   nextId, conn>>

ShutdownRequests ==
    {r \in Requests : /\ r.xff = <<>> /\ r.realIP = <<>>
                      /\ \/ r.method = "GET" /\ r.path = "/health"
                         \/ r.method = "POST" /\ r.body = ValidBody}

NextShutdown ==
    \/ LoadConfig \/ ConnectDB \/ StartServer
    \/ \E c \in Conns, r \in ShutdownRequests : Arrive(c, r)
    \/ \E c \in Conns : Limit(c)
    \/ \E c \in Conns : ServeMux(c)
    \/ Signal \/ ShutdownReturns \/ ShutdownTimesOut \/ MainReturns

SpecShutdown == Init /\ [][NextShutdown]_vars

\* C22: once the signal has arrived no new request is taken, the pool of
\* the store is closed only after srv.Shutdown has returned, and the process
\* exits only with the pool closed.
C22_CloseAfterShutdown ==
    /\ [](mainPc \in {"exited", "forced"} => ~dbOpen)
    /\ [][ /\ mainPc # "serving" =>
                \A c \in Conns : conn'[c].stage = "limiter" => conn[c].stage = "limiter"
           /\ (dbOpen /\ ~dbOpen') => mainPc = "stopped"
         ]_vars

\* ------------------------------------------------------------------------
\* The overshoot of the limit
\* ------------------------------------------------------------------------

\* the requests of the identity that the limiter has admitted and
\* CreatePost has not answered yet
Pending(ipHash) ==
    {c \in Conns : /\ conn[c].stage = "mux"
                   /\ conn[c].req.method = "POST" /\ conn[c].req.path = "/api/posts"
                   /\ conn[c].ipHash = ipHash}

\* the identities of the callers that send requests at the same time
ConcurrentIdentities == {hashIP(getIP(r)) : r \in ConcurrentRequests}

\* C23: in an execution where never more than k requests of an identity
\* are between their count query and their insert, the posts of the identity
\* inside the window are never more than requestLimit + (k - 1); with k = 1
\* they are never more than requestLimit.
C23_BoundedOvershoot ==
    \A k \in 1..MaxInflight : \A A \in ConcurrentIdentities :
        [](Cardinality(Pending(A)) <= k) =>
            [](mainPc = "serving" =>
                  Cardinality(PostsInWindow(A)) <= requestLimit + (k - 1))

\* the posts of an identity inside the window are MaxInflight - 1 above the
\* limit
C23_Witness ==
    \E A \in ConcurrentIdentities :
        /\ mainPc = "serving"
        /\ Cardinality(PostsInWindow(A)) = requestLimit + (MaxInflight - 1)
        /\ \A c \in Conns : conn[c].stage = "done" /\ conn[c].status = 201

\* ------------------------------------------------------------------------
\* What consumes the quota
\* ------------------------------------------------------------------------

\* C24: a POST that the limiter admitted and CreatePost answered 400 or 500
\* leaves posts as it was, and with it the count of every identity inside
\* the window and whether the limiter would admit that identity; and the
\* limiter decides by that count alone.
C24_FailedCreatesFree ==
    [][ \A c \in Conns :
          /\ ( /\ CreateAnswered(c)
               /\ conn[c].stage = "mux"
               /\ conn'[c].status # 201 ) =>
               /\ conn'[c].status \in {400, 500}
               /\ posts' = posts
               /\ \A A \in Identities :
                    /\ GetPostCountByIPInWindow(A, windowMinutes)' =
                         GetPostCountByIPInWindow(A, windowMinutes)
                    /\ (GetPostCountByIPInWindow(A, windowMinutes) >= requestLimit)' =
                         (GetPostCountByIPInWindow(A, windowMinutes) >= requestLimit)
          /\ (LimiterDecidedPost(c) /\ storeUp) =>
               (conn'[c].status = 429 <=>
                  GetPostCountByIPInWindow(hashIP(getIP(conn[c].req)), windowMinutes)
                     >= requestLimit)
      ]_vars

\* a caller with a post inside the window and one below its limit was
\* admitted, answered 400, and is still one below its limit
C24_Witness ==
    \E c \in Conns :
        /\ conn[c].stage = "done" /\ conn[c].nextCalled /\ conn[c].status = 400
        /\ conn[c].req.method = "POST" /\ conn[c].req.path = "/api/posts"
        /\ GetPostCountByIPInWindow(conn[c].identity, windowMinutes) = requestLimit - 1
        /\ GetPostCountByIPInWindow(conn[c].identity, windowMinutes) > 0

====
